---- MODULE Spec2Model ----
(***************************************************************************)
(* ZenithDS: a query engine over collections (directories) of CSV files.  *)
(* The model follows src/src/db.rs and src/src/types.rs.                    *)
(*                                                                         *)
(* Strings are sequences of byte codes, so that the lexicographic          *)
(* comparisons and the substring test of Predicate::satisfied_by are       *)
(* computed and not assumed.  A file is a sequence of lines, a line a      *)
(* sequence of cells; a line without cells is a blank line.                *)
(***************************************************************************)
EXTENDS Integers, Sequences, FiniteSets, Bags, TLC

VARIABLES
    fs,        \* the collection directory "main": filename -> file
    pc,        \* idle, in select (spawned, drain, join), or returned
    call,      \* the arguments of the current (or last) call
    groups,    \* select: the file groups, one per worker
    wpos,      \* select: per worker, the number of files of its group done
    senders,   \* select: the live sender handles (0 is the original one)
    chan,      \* select: the CSVData sent and not yet received
    header,    \* select: the aggregate header
    records,   \* select: the aggregate rows
    joined,    \* select: the number of worker threads joined
    log,       \* select: the files whose read error was logged
    entries,   \* insert: the directory entries sampled by the header check
    inserted,  \* the payload of the last accepted insert not yet followed by a write
    result,    \* what the last call returned
    io,        \* the filesystem calls (read_dir, open, remove) of the current call
    scan,      \* one run of the record loop of read_csv or render
    part,      \* two runs of group_collection_files on one set of files
    dq         \* one run of DataQuery::new on one predicate string

vars == <<fs, pc, call, groups, wpos, senders, chan, header, records, joined,
          log, entries, inserted, result, io, scan, part, dq>>

(***************************************************************************)
(* Bounds of the inputs.                                                   *)
(***************************************************************************)
MaxLines == 3
MaxK == 2
MaxPartFiles == 3
MaxSize == 2

(***************************************************************************)
(* String literals.                                                        *)
(***************************************************************************)
sE == <<>>
sA == <<97>>
sB == <<98>>
sC == <<99>>

Cells == {sE, sA, sB}

Min(a, b) == IF a < b THEN a ELSE b

(***************************************************************************)
(* Rust's String ordering: bytewise lexicographic.                         *)
(***************************************************************************)
RECURSIVE StrLess(_, _)
StrLess(a, b) ==
    IF b = <<>> THEN FALSE
    ELSE IF a = <<>> THEN TRUE
    ELSE IF Head(a) # Head(b) THEN Head(a) < Head(b)
    ELSE StrLess(Tail(a), Tail(b))

\* str::contains: sub occurs in v as a contiguous substring
StrContains(v, sub) ==
    \E i \in 1..(Len(v) + 1) :
        /\ i + Len(sub) - 1 <= Len(v)
        /\ SubSeq(v, i, i + Len(sub) - 1) = sub

\* Predicate::satisfied_by
satisfied_by(pred, value) ==
    CASE pred.op = "EQ" -> value = pred.value
      [] pred.op = "NE" -> value # pred.value
      [] pred.op = "LT" -> StrLess(value, pred.value)
      [] pred.op = "GT" -> StrLess(pred.value, value)
      [] pred.op = "LE" -> ~StrLess(pred.value, value)
      [] pred.op = "GE" -> ~StrLess(value, pred.value)
      [] pred.op = "CONTAINS" -> StrContains(value, pred.value)

(***************************************************************************)
(* The csv reader built with has_headers(false) and the default            *)
(* flexible(false): blank lines are skipped, every other line is a record, *)
(* and a record whose number of fields differs from the first record's is  *)
(* reported as an error (UnequalLengths) in place of the record.           *)
(***************************************************************************)
ReaderRecords(lines) == SelectSeq(lines, LAMBDA l : Len(l) > 0)

ReaderResult(recs, i) ==
    IF Len(recs[i]) # Len(recs[1]) THEN "CSVError" ELSE "Ok"

AllNonEmpty(record) == \A i \in 1..Len(record) : Len(record[i]) > 0

\* record_hashmap: the header zipped with the record, a later duplicate key
\* overwriting an earlier one
HashHas(hdr, field) == \E i \in 1..Len(hdr) : hdr[i] = field

HashGet(hdr, record, field) ==
    LET last == CHOOSE i \in 1..Len(hdr) :
                    /\ hdr[i] = field
                    /\ \A j \in (i + 1)..Len(hdr) : hdr[j] # field
    IN record[last]

\* query.predicates.iter().all(...): a field not found has no effect
RowPasses(preds, hdr, record) ==
    \A p \in 1..Len(preds) :
        IF HashHas(hdr, preds[p].field)
        THEN satisfied_by(preds[p], HashGet(hdr, record, preds[p].field))
        ELSE TRUE

\* query.fields.iter().filter_map(|field| record_hashmap.get(field))
RECURSIVE Project(_, _, _)
Project(fields, hdr, record) ==
    IF fields = <<>> THEN <<>>
    ELSE (IF HashHas(hdr, Head(fields))
          THEN <<HashGet(hdr, record, Head(fields))>>
          ELSE <<>>) \o Project(Tail(fields), hdr, record)

\* ScanStep taking the first row as the header whatever its cells
ScanStep_AnyRowHeader(q, st, record) ==
    IF st.header # <<>> /\ Len(st.header) = Len(record)
    THEN IF RowPasses(q.predicates, st.header, record)
         THEN IF q.fields = <<>> /\ record # <<>>
              THEN [st EXCEPT !.records = Append(@, record)]
              ELSE LET filtered == Project(q.fields, st.header, record)
                   IN IF filtered # <<>>
                      THEN [st EXCEPT !.records = Append(@, filtered)]
                      ELSE st
         ELSE st
    ELSE IF st.header = <<>>
         THEN [st EXCEPT !.header = record]
         ELSE st

\* the body of the record loop of read_csv; st = [header, records]
ScanStep(q, st, record) ==
    IF st.header # <<>> /\ Len(st.header) = Len(record)
    THEN IF RowPasses(q.predicates, st.header, record)
         THEN IF q.fields = <<>> /\ record # <<>>
              THEN [st EXCEPT !.records = Append(@, record)]
              ELSE LET filtered == Project(q.fields, st.header, record)
                   IN IF filtered # <<>>
                      THEN [st EXCEPT !.records = Append(@, filtered)]
                      ELSE st
         ELSE st
    ELSE IF st.header = <<>> /\ AllNonEmpty(record)
         THEN [st EXCEPT !.header = record]
         ELSE st

\* the body of the record loop of render
RenderStep(st, record) ==
    IF st.header # <<>> /\ Len(st.header) = Len(record)
    THEN [st EXCEPT !.records = Append(@, record)]
    ELSE IF st.header = <<>> /\ AllNonEmpty(record)
         THEN [st EXCEPT !.header = record]
         ELSE st

\* "Limit what is returned in the header."
RECURSIVE LimitHeader(_, _)
LimitHeader(fields, hdr) ==
    IF fields = <<>> THEN <<>>
    ELSE (IF HashHas(hdr, Head(fields)) THEN <<Head(fields)>> ELSE <<>>)
         \o LimitHeader(Tail(fields), hdr)

\* ScanFinish returning the file's whole header under a projection
ScanFinish_WholeHeader(q, st) ==
    [status |-> "Ok", header |-> st.header, records |-> st.records]

ScanFinish(q, st) ==
    [status |-> "Ok",
     header |-> IF q.fields # <<>> THEN LimitHeader(q.fields, st.header)
                ELSE st.header,
     records |-> st.records]

ScanFailed(err) == [status |-> err, header |-> <<>>, records |-> <<>>]

\* the record loop from record i on; the state after record i is computed
\* once and handed to the rest of the loop
RECURSIVE ScanFrom(_, _, _, _)
ScanFrom(q, recs, i, st) ==
    IF i > Len(recs) THEN ScanFinish(q, st)
    ELSE IF ReaderResult(recs, i) # "Ok" THEN ScanFailed(ReaderResult(recs, i))
    ELSE CHOOSE out \in { ScanFrom(q, recs, i + 1, next) :
                            next \in { ScanStep(q, st, recs[i]) } } : TRUE

\* read_csv: Ok(CSVData), or the error of opening the file or of a record
read_csv(entry, q) ==
    IF ~entry.readable THEN ScanFailed("FileSystemError")
    ELSE ScanFrom(q, ReaderRecords(entry.lines), 1,
                  [header |-> <<>>, records |-> <<>>])

(***************************************************************************)
(* Files on disk.  An entry that cannot be opened (no permission, a        *)
(* subdirectory) has readable = FALSE.  The size of a file is the byte     *)
(* length of its CSV text.                                                 *)
(***************************************************************************)
RECURSIVE SumLen(_)
SumLen(seq) == IF seq = <<>> THEN 0 ELSE Len(Head(seq)) + SumLen(Tail(seq))

\* a record is its fields joined by commas and a newline; a record of one
\* empty field is written "" so that it is not a blank line
LineSize(line) ==
    IF line = <<>> THEN 1
    ELSE IF line = <<sE>> THEN 3
    ELSE SumLen(line) + Len(line)

RECURSIVE TextSize(_)
TextSize(lines) ==
    IF lines = <<>> THEN 0 ELSE LineSize(Head(lines)) + TextSize(Tail(lines))

\* the regex crate on the patterns used here: a pattern is a literal unless
\* it holds an unbalanced "(" (byte 40), which does not compile
RegexCompiles(pattern) == \A i \in 1..Len(pattern) : pattern[i] # 40

RegexFinds(pattern, name) == StrContains(name, pattern)

\* the filter closure of list_collection_files
FileListed(m, regex_predicates) ==
    /\ m.filename # <<>>
    /\ m.size > 0
    /\ \A p \in 1..Len(regex_predicates) :
          IF RegexFinds(regex_predicates[p].field, m.filename)
          THEN satisfied_by(regex_predicates[p], regex_predicates[p].field)
          ELSE FALSE

\* list_collection_files, given the order in which read_dir yields the
\* entries of the directory
RECURSIVE list_collection_files(_, _, _)
list_collection_files(dir, order, regex_predicates) ==
    IF order = <<>> THEN <<>>
    ELSE LET m == [filename |-> Head(order),
                   size |-> TextSize(dir[Head(order)].lines)]
         IN (IF FileListed(m, regex_predicates) THEN <<m>> ELSE <<>>)
            \o list_collection_files(dir, Tail(order), regex_predicates)

(***************************************************************************)
(* group_collection_files: a stable sort by size, then the files in        *)
(* reverse order dealt round-robin to k groups.                            *)
(***************************************************************************)
\* insert m into a list sorted by size, after the elements of equal size
RECURSIVE InsertBySize(_, _)
InsertBySize(m, sorted) ==
    IF sorted = <<>> THEN <<m>>
    ELSE IF m.size < Head(sorted).size THEN <<m>> \o sorted
    ELSE <<Head(sorted)>> \o InsertBySize(m, Tail(sorted))

\* sort_by_size leaving the files in the order given
sort_by_size_Unsorted(files) == files

\* files.sort_by_key(|m| m.size): stable
RECURSIVE sort_by_size(_)
sort_by_size(files) ==
    IF files = <<>> THEN <<>>
    ELSE InsertBySize(files[Len(files)],
                      sort_by_size(SubSeq(files, 1, Len(files) - 1)))

Reverse(seq) == [i \in 1..Len(seq) |-> seq[Len(seq) + 1 - i]]

\* the elements of seq whose 0-based position i has i % k = g
RECURSIVE Dealt(_, _, _, _)
Dealt(seq, i, g, k) ==
    IF seq = <<>> THEN <<>>
    ELSE (IF i % k = g THEN <<Head(seq)>> ELSE <<>>)
         \o Dealt(Tail(seq), i + 1, g, k)

\* group_collection_files dealing the files in ascending order of size
group_collection_files_NoRev(files, k) ==
    LET asc == sort_by_size(files)
    IN [g \in 1..k |-> Dealt(asc, 0, g - 1, k)]

group_collection_files(files, k) ==
    LET rev == Reverse(sort_by_size(files))
    IN [g \in 1..k |-> Dealt(rev, 0, g - 1, k)]

(***************************************************************************)
(* satisfies_collection_header: the header check of insert over the first  *)
(* three entries read_dir yields.                                          *)
(***************************************************************************)
SampleSize == 3

\* the record loop over one sampled entry: the first complete record, the
\* empty header when there is none, or the reader's error
RECURSIVE EntryHeader(_, _)
EntryHeader(recs, i) ==
    IF i > Len(recs) THEN [status |-> "Ok", header |-> <<>>]
    ELSE IF ReaderResult(recs, i) # "Ok"
         THEN [status |-> ReaderResult(recs, i), header |-> <<>>]
    ELSE IF AllNonEmpty(recs[i]) THEN [status |-> "Ok", header |-> recs[i]]
    ELSE EntryHeader(recs, i + 1)

\* HeaderDiffers comparing the two headers as sets of names
HeaderDiffers_AsSets(entry_header, hdr) ==
    { entry_header[i] : i \in 1..Len(entry_header) }
        # { hdr[i] : i \in 1..Len(hdr) }

\* entry_header.len() != header.len() || zip(..).any(|(a, b)| a != b)
HeaderDiffers(entry_header, hdr) ==
    \/ Len(entry_header) # Len(hdr)
    \/ \E i \in 1..Min(Len(entry_header), Len(hdr)) : entry_header[i] # hdr[i]

\* the header check accepting every header
satisfies_collection_header_NoCheck(dir, sample, hdr) == "Ok"

RECURSIVE satisfies_collection_header(_, _, _)
satisfies_collection_header(dir, sample, hdr) ==
    IF sample = <<>> THEN "Ok"
    ELSE LET e == dir[Head(sample)]
             eh == EntryHeader(ReaderRecords(e.lines), 1)
         IN IF ~e.readable THEN "FileSystemError"
            ELSE IF eh.status # "Ok" THEN eh.status
            ELSE IF HeaderDiffers(eh.header, hdr) THEN "QueryError"
            ELSE satisfies_collection_header(dir, Tail(sample), hdr)

\* the number of sampled entries the header check opens before it returns
RECURSIVE entries_opened(_, _, _)
entries_opened(dir, sample, hdr) ==
    IF sample = <<>> THEN 0
    ELSE IF satisfies_collection_header(dir, <<Head(sample)>>, hdr) # "Ok" THEN 1
    ELSE 1 + entries_opened(dir, Tail(sample), hdr)

\* the csv writer: one line per record written
WriteCsv(hdr, rows) == [readable |-> TRUE, lines |-> <<hdr>> \o rows]

\* insert: the status returned and the directory it leaves.  `exists` tells
\* whether the collection directory exists, `sample` is what
\* read_dir(..).take(3) yields
insert(dir, exists, c, filename, hdr, rows, sample) ==
    IF c = "" \/ filename = <<>> \/ hdr = <<>>
    THEN [status |-> "QueryError", fs |-> dir, entries |-> <<>>, io |-> 0]
    ELSE IF \E i \in 1..Len(rows) : Len(rows[i]) # Len(hdr)
    THEN [status |-> "QueryError", fs |-> dir, entries |-> <<>>, io |-> 0]
    ELSE IF ~exists
    THEN [status |-> "FileSystemError", fs |-> dir, entries |-> <<>>, io |-> 1]
    ELSE IF satisfies_collection_header(dir, sample, hdr) # "Ok"
    THEN [status |-> satisfies_collection_header(dir, sample, hdr),
          fs |-> dir, entries |-> sample,
          io |-> 1 + entries_opened(dir, sample, hdr)]
    ELSE IF filename \in DOMAIN dir /\ ~dir[filename].readable
    THEN [status |-> "FileSystemError", fs |-> dir, entries |-> sample,
          io |-> 2 + Len(sample)]
    ELSE [status |-> "Ok",
          fs |-> [n \in DOMAIN dir \cup {filename} |->
                    IF n = filename THEN WriteCsv(hdr, rows) ELSE dir[n]],
          entries |-> sample, io |-> 2 + Len(sample)]

\* delete
delete(dir, exists, c, filename) ==
    IF filename = <<>> \/ c = ""
    THEN [status |-> "QueryError", fs |-> dir, io |-> 0]
    ELSE IF ~exists \/ filename \notin DOMAIN dir
    THEN [status |-> "FileSystemError", fs |-> dir, io |-> 1]
    ELSE [status |-> "Ok", fs |-> [n \in DOMAIN dir \ {filename} |-> dir[n]],
          io |-> 1]

(***************************************************************************)
(* select: the steps of the coordinator and of the workers.                *)
(***************************************************************************)
\* what select returns before any worker is spawned: the error of a filename
\* regex that does not compile, or of a directory that cannot be listed
select_error_ListFirst(exists, q) ==
    IF ~exists THEN "FileSystemError"
    ELSE IF \E p \in 1..Len(q.filename_regex_predicates) :
          ~RegexCompiles(q.filename_regex_predicates[p].field)
    THEN "PredicateError"
    ELSE "Ok"

select_error(exists, q) ==
    IF \E p \in 1..Len(q.filename_regex_predicates) :
          ~RegexCompiles(q.filename_regex_predicates[p].field)
    THEN "PredicateError"
    ELSE IF ~exists THEN "FileSystemError"
    ELSE "Ok"

\* the position of a worker in its group after a file: the for loop goes on
\* to the next file whether read_csv returned Ok or Err
next_file_Abandon(pos, len, data) == IF data.status = "Ok" THEN pos + 1 ELSE len

next_file(pos, len, data) == pos + 1

\* drop(sender) leaving the original sender alive
drop_sender_Kept(handles) == handles

\* drop(sender): the coordinator's own handle is released
drop_sender(handles) == handles \ {0}

\* the merge loop body replacing the rows received so far
merge_Prepend(agg, received) ==
    [header |-> IF agg.header = <<>> THEN received.header ELSE agg.header,
     records |-> received.records \o agg.records]

merge_LastHeader(agg, received) ==
    [header |-> IF received.header # <<>> THEN received.header ELSE agg.header,
     records |-> agg.records \o received.records]

merge_Replace(agg, received) ==
    [header |-> IF agg.header = <<>> THEN received.header ELSE agg.header,
     records |-> received.records]

\* the merge loop body: the header of the first result with a non-empty
\* header, the rows appended
merge(agg, received) ==
    [header |-> IF agg.header = <<>> THEN received.header ELSE agg.header,
     records |-> agg.records \o received.records]

(***************************************************************************)
(* Inputs: queries as DataQuery::new builds them.                          *)
(***************************************************************************)
Pred(f, o, v) == [field |-> f, op |-> o, value |-> v]

Query(f, p, r) == [fields |-> f, predicates |-> p, filename_regex_predicates |-> r]

NoQuery == Query(<<>>, <<>>, <<>>)

(***************************************************************************)
(* DataQuery::new: every predicate string is matched, anchored at both     *)
(* ends, against: an optional "HAS " prefix, a field of one or more        *)
(* characters, a space, an operator token, a space, a value of zero or     *)
(* more characters.  The regex crate's leftmost-first rule applies: the    *)
(* "HAS " prefix is tried before the empty one, the field is greedy, and a *)
(* character of the field or of the value is never a newline.              *)
(***************************************************************************)
bSpace == <<32>>

bHAS == <<72, 65, 83, 32>>

\* the operator tokens in the order of the alternation, with their PredOp
OpTokens ==
    << [tok |-> <<61, 61>>, op |-> "EQ"],
       [tok |-> <<33, 61>>, op |-> "NE"],
       [tok |-> <<60>>, op |-> "LT"],
       [tok |-> <<62>>, op |-> "GT"],
       [tok |-> <<60, 61>>, op |-> "LE"],
       [tok |-> <<62, 61>>, op |-> "GE"],
       [tok |-> <<67, 79, 78, 84, 65, 73, 78, 83>>, op |-> "CONTAINS"] >>

NoNewline(str) == \A i \in 1..Len(str) : str[i] # 10

\* the regex matches s with a prefix of h bytes, the space before the
\* operator at position i and the k-th operator token
Captures(s, h, i, k) ==
    LET tok == OpTokens[k].tok
        e == i + Len(tok) + 1
    IN /\ h = 4 => (Len(s) >= 4 /\ SubSeq(s, 1, 4) = bHAS)
       /\ i >= h + 2
       /\ e <= Len(s)
       /\ s[i] = 32
       /\ SubSeq(s, i + 1, i + Len(tok)) = tok
       /\ s[e] = 32
       /\ NoNewline(SubSeq(s, h + 1, i - 1))
       /\ NoNewline(SubSeq(s, e + 1, Len(s)))

CaptureSet(s) ==
    { c \in [h : {0, 4}, i : 1..Len(s), k : 1..Len(OpTokens)] :
        Captures(s, c.h, c.i, c.k) }

\* re_captures with a field that stops at the first operator
re_captures_Lazy(s) ==
    LET all == CaptureSet(s)
    IN IF all = {} THEN [matched |-> FALSE]
       ELSE LET c == CHOOSE x \in all :
                        \A y \in all :
                            \/ x.h > y.h
                            \/ x.h = y.h /\ x.i < y.i
                            \/ x.h = y.h /\ x.i = y.i /\ x.k <= y.k
                e == c.i + Len(OpTokens[c.k].tok) + 1
            IN [matched |-> TRUE,
                is_regex_field |-> SubSeq(s, 1, c.h),
                field |-> SubSeq(s, c.h + 1, c.i - 1),
                op |-> OpTokens[c.k].op,
                value |-> SubSeq(s, e + 1, Len(s))]

\* re.captures(&s): None, or the groups of the preferred match
re_captures(s) ==
    LET all == CaptureSet(s)
    IN IF all = {} THEN [matched |-> FALSE]
       ELSE LET c == CHOOSE x \in all :
                        \A y \in all :
                            \/ x.h > y.h
                            \/ x.h = y.h /\ x.i > y.i
                            \/ x.h = y.h /\ x.i = y.i /\ x.k <= y.k
                e == c.i + Len(OpTokens[c.k].tok) + 1
            IN [matched |-> TRUE,
                is_regex_field |-> SubSeq(s, 1, c.h),
                field |-> SubSeq(s, c.h + 1, c.i - 1),
                op |-> OpTokens[c.k].op,
                value |-> SubSeq(s, e + 1, Len(s))]

\* the loop of DataQuery::new over string_predicates[n..], dq the query so far
RECURSIVE ParseFrom(_, _, _)
ParseFrom(string_predicates, n, dq_sofar) ==
    IF n > Len(string_predicates) THEN [status |-> "Ok", query |-> dq_sofar]
    ELSE LET c == re_captures(string_predicates[n])
         IN IF ~c.matched THEN [status |-> "PredicateError", query |-> NoQuery]
            ELSE LET p == Pred(c.field, c.op, c.value)
                 IN ParseFrom(string_predicates, n + 1,
                        IF c.is_regex_field # <<>>
                        THEN [dq_sofar EXCEPT !.filename_regex_predicates =
                                                    Append(@, p)]
                        ELSE [dq_sofar EXCEPT !.predicates = Append(@, p)])

DataQuery_new(fields, string_predicates) ==
    ParseFrom(string_predicates, 1, Query(fields, <<>>, <<>>))

ScanQueries ==
    { NoQuery,
      Query(<<sB, sA>>, <<>>, <<>>),
      Query(<<sC>>, <<>>, <<>>),
      Query(<<sA, sC>>, <<Pred(sB, "GE", sB)>>, <<>>),
      Query(<<>>, <<Pred(sA, "EQ", sA)>>, <<>>),
      Query(<<>>, <<Pred(sC, "NE", sC)>>, <<>>),
      Query(<<>>, <<Pred(sA, "LT", sB), Pred(sB, "CONTAINS", sA)>>, <<>>),
      Query(<<>>, <<Pred(sA, "GT", sE), Pred(sB, "LE", sA)>>, <<>>) }

\* rows of one or of two cells
AllRows == [1..1 -> Cells] \cup [1..2 -> Cells]

AllLines == AllRows \cup { <<>> }

AllTexts == UNION { [1..n -> AllLines] : n \in 0..MaxLines }

(***************************************************************************)
(* Values of the variables a specification does not use.                   *)
(***************************************************************************)
NoFiles == [n \in {} |-> <<>>]

NoResult == [op |-> "none", status |-> "none", header |-> <<>>, rows |-> <<>>]

NoCall == [op |-> "none"]

NoScan == [mode |-> "none"]

NoPart == [k |-> 0]

NoParse == [stage |-> "none"]

MainIdle ==
    /\ pc = "idle"
    /\ call = NoCall
    /\ groups = <<>>
    /\ wpos = <<>>
    /\ senders = {}
    /\ chan = <<>>
    /\ header = <<>>
    /\ records = <<>>
    /\ joined = 0
    /\ log = {}
    /\ entries = <<>>
    /\ inserted = <<>>
    /\ result = NoResult
    /\ io = 0

mainVars == <<fs, pc, call, groups, wpos, senders, chan, header, records,
              joined, log, entries, inserted, result, io>>

(***************************************************************************)
(* ScanSpec: the record loop of read_csv (and of render), one record per   *)
(* step, over every text of at most MaxLines lines.                        *)
(***************************************************************************)
ScanInit ==
    /\ fs = NoFiles
    /\ MainIdle
    /\ part = NoPart
    /\ dq = NoParse
    /\ \E text \in AllTexts, mode \in {"read_csv", "render"} :
         \E q \in (IF mode = "render" THEN {NoQuery} ELSE ScanQueries) :
            scan = [mode |-> mode, recs |-> ReaderRecords(text), query |-> q,
                    pos |-> 0, header |-> <<>>, records |-> <<>>,
                    status |-> "running", ret |-> <<>>]

ScanState == [header |-> scan.header, records |-> scan.records]

\* the reader yields a record: one turn of the loop body
ScanRecord ==
    /\ scan.mode # "none"
    /\ scan.status = "running"
    /\ scan.pos < Len(scan.recs)
    /\ ReaderResult(scan.recs, scan.pos + 1) = "Ok"
    /\ LET st == IF scan.mode = "render"
                 THEN RenderStep(ScanState, scan.recs[scan.pos + 1])
                 ELSE ScanStep(scan.query, ScanState, scan.recs[scan.pos + 1])
       IN scan' = [scan EXCEPT !.pos = @ + 1, !.header = st.header,
                               !.records = st.records]
    /\ UNCHANGED <<mainVars, part, dq>>

\* the reader yields an error: `result?` returns it
ScanError ==
    /\ scan.mode # "none"
    /\ scan.status = "running"
    /\ scan.pos < Len(scan.recs)
    /\ ReaderResult(scan.recs, scan.pos + 1) # "Ok"
    /\ scan' = [scan EXCEPT !.status = ReaderResult(scan.recs, scan.pos + 1)]
    /\ UNCHANGED <<mainVars, part, dq>>

\* the reader is exhausted: the header is limited to the fields and returned
ScanReturn ==
    /\ scan.mode # "none"
    /\ scan.status = "running"
    /\ scan.pos = Len(scan.recs)
    /\ scan' = [scan EXCEPT !.status = "Ok",
                            !.ret = ScanFinish(scan.query, ScanState).header]
    /\ UNCHANGED <<mainVars, part, dq>>

ScanNext == ScanRecord \/ ScanError \/ ScanReturn

ScanSpec == ScanInit /\ [][ScanNext]_vars

(***************************************************************************)
(* Spec: the collection "main" with files put there beforehand, and the    *)
(* calls select, insert and delete made one at a time.  Within select the  *)
(* coordinator and the worker threads interleave.  The collection "nodir"  *)
(* has no directory.                                                       *)
(***************************************************************************)
\* the file names f1, f2, ...
FileName(i) == <<102, 48 + i>>

MaxFiles == 2

Names == { FileName(i) : i \in 1..MaxFiles }

File(lines) == [readable |-> TRUE, lines |-> lines]

\* header a,b and two rows
tAB == <<<<sA, sB>>, <<sA, sA>>, <<sB, sE>>>>
\* a row with an empty cell before the header a,b
tPre == <<<<sE, sB>>, <<sA, sB>>, <<sB, sB>>>>
\* header a and one row
tA == <<<<sA>>, <<sB>>>>
\* a second record with fewer fields than the first
tBad == <<<<sA, sB>>, <<sA>>>>
\* two records with an empty cell each: no header
tNoHeader == <<<<sE, sA>>, <<sE, sB>>>>

InitFiles ==
    { File(tAB), File(tPre), File(tA), File(tBad), File(tNoHeader), File(<<>>),
      [readable |-> FALSE, lines |-> tA] }

InsertPayloads ==
    { [header |-> <<>>, rows |-> <<>>],
      [header |-> <<sA, sB>>, rows |-> <<<<sB, sA>>>>],
      [header |-> <<sA, sB>>, rows |-> <<<<sB>>>>],
      [header |-> <<sA>>, rows |-> <<<<sB>>>>],
      [header |-> <<sB, sA>>, rows |-> <<>>],
      [header |-> <<sA, sE>>, rows |-> <<<<sB, sA>>, <<sA, sA>>>>] }

\* what select is called with: the fields and the predicate strings
\* (a == b, HAS 1 == 1, HAS ( == with an empty value, and a = b, which
\* holds no operator)
SelectInputs ==
    { [fields |-> <<>>, predicates |-> <<>>],
      [fields |-> <<sB>>, predicates |-> <<>>],
      [fields |-> <<>>, predicates |-> << <<97, 32, 61, 61, 32, 98>> >>],
      [fields |-> <<>>, predicates |-> << bHAS \o <<49, 32, 61, 61, 32, 49>> >>],
      [fields |-> <<>>, predicates |-> << bHAS \o <<40, 32, 61, 61, 32>> >>],
      [fields |-> <<>>, predicates |-> << <<97, 32, 61, 32, 98>> >>] }

\* the queries DataQuery::new builds from them
SelectQueries ==
    { DataQuery_new(in.fields, in.predicates).query :
        in \in { i \in SelectInputs :
                    DataQuery_new(i.fields, i.predicates).status = "Ok" } }

Collections == { "main", "nodir" }

Exists(c) == c = "main"

\* the orders in which read_dir may yield the entries of a directory
DirOrders(dir) ==
    { o \in [1..Cardinality(DOMAIN dir) -> DOMAIN dir] :
        \A i, j \in DOMAIN o : i # j => o[i] # o[j] }

\* what read_dir(..).take(n) may yield: n entries (all of them when there
\* are fewer) in any order; nothing when the directory does not exist
DirSamples(dir, exists, n) ==
    IF exists
    THEN { o \in [1..Min(n, Cardinality(DOMAIN dir)) -> DOMAIN dir] :
             \A i, j \in DOMAIN o : i # j => o[i] # o[j] }
    ELSE { <<>> }

Init ==
    /\ MainIdle
    /\ scan = NoScan
    /\ part = NoPart
    /\ dq = NoParse
    /\ \E used \in SUBSET Names : fs \in [used -> InitFiles]

selectVars == <<groups, wpos, senders, chan, header, records, joined, log>>

\* select returns an error before it spawns any worker
SelectFails ==
    /\ pc = "idle"
    /\ \E c \in Collections, in \in SelectInputs, k \in 1..MaxK :
         LET parsed == DataQuery_new(in.fields, in.predicates)
             err == IF parsed.status # "Ok" THEN parsed.status
                    ELSE select_error(Exists(c), parsed.query)
         IN /\ err # "Ok"
            /\ call' = [op |-> "select", collection |-> c,
                        predicates |-> in.predicates,
                        query |-> parsed.query, k |-> k]
            /\ result' = [op |-> "select", status |-> err,
                          header |-> <<>>, rows |-> <<>>]
    /\ io' = IF result'.status = "PredicateError" THEN 0 ELSE 1
    /\ pc' = "returned"
    /\ UNCHANGED <<fs, selectVars, entries, inserted, scan, part, dq>>

\* select up to drop(sender): the query, the files listed and grouped, the
\* channel, one thread spawned per group with its clone of the sender
SelectBegin ==
    /\ pc = "idle"
    /\ \E c \in Collections, in \in SelectInputs, k \in 1..MaxK :
       LET parsed == DataQuery_new(in.fields, in.predicates)
           q == parsed.query
       IN
         /\ parsed.status = "Ok"
         /\ select_error(Exists(c), q) = "Ok"
         /\ \E order \in DirOrders(fs) :
              groups' = group_collection_files(
                            list_collection_files(fs, order,
                                                  q.filename_regex_predicates), k)
         /\ call' = [op |-> "select", collection |-> c,
                     predicates |-> in.predicates, query |-> q, k |-> k]
         /\ wpos' = [w \in 1..k |-> 0]
         /\ senders' = 0..k
    /\ io' = 1
    /\ pc' = "spawned"
    /\ UNCHANGED <<fs, chan, header, records, joined, log, entries, inserted,
                   result, scan, part, dq>>

\* a worker reads the next file of its group and sends the data, or logs
\* the error
WorkerStep(w) ==
    /\ pc \in {"spawned", "drain", "join"}
    /\ w \in senders
    /\ wpos[w] < Len(groups[w])
    /\ LET fm == groups[w][wpos[w] + 1]
           data == read_csv(fs[fm.filename], call.query)
       IN /\ IF data.status = "Ok"
             THEN /\ chan' = Append(chan, [header |-> data.header,
                                           records |-> data.records])
                  /\ log' = log
             ELSE /\ chan' = chan
                  /\ log' = log \cup {fm.filename}
          /\ wpos' = [wpos EXCEPT ![w] = next_file(wpos[w], Len(groups[w]), data)]
    /\ io' = io + 1
    /\ UNCHANGED <<fs, pc, call, groups, senders, header, records, joined,
                   entries, inserted, result, scan, part, dq>>

\* a worker is through its group: the closure returns, its sender is dropped
WorkerExit(w) ==
    /\ pc \in {"spawned", "drain", "join"}
    /\ w \in senders
    /\ w # 0
    /\ wpos[w] >= Len(groups[w])
    /\ senders' = senders \ {w}
    /\ UNCHANGED <<fs, pc, call, groups, wpos, chan, header, records, joined,
                   log, entries, inserted, io, result, scan, part, dq>>

\* drop(sender)
DropSender ==
    /\ pc = "spawned"
    /\ senders' = drop_sender(senders)
    /\ pc' = "drain"
    /\ UNCHANGED <<fs, call, groups, wpos, chan, header, records, joined, log,
                   entries, inserted, io, result, scan, part, dq>>

\* for received in receiver: one CSVData received and merged
Receive ==
    /\ pc = "drain"
    /\ chan # <<>>
    /\ LET m == merge([header |-> header, records |-> records], Head(chan))
       IN /\ header' = m.header
          /\ records' = m.records
    /\ chan' = Tail(chan)
    /\ UNCHANGED <<fs, pc, call, groups, wpos, senders, joined, log, entries,
                   inserted, io, result, scan, part, dq>>

\* the receiver's iterator ends: the channel is empty and every sender dropped
DrainEnd ==
    /\ pc = "drain"
    /\ chan = <<>>
    /\ senders = {}
    /\ pc' = "join"
    /\ UNCHANGED <<fs, call, groups, wpos, senders, chan, header, records,
                   joined, log, entries, inserted, io, result, scan, part, dq>>

\* join_handle.join() of the next thread, which has finished
Join ==
    /\ pc = "join"
    /\ joined < call.k
    /\ (joined + 1) \notin senders
    /\ joined' = joined + 1
    /\ UNCHANGED <<fs, pc, call, groups, wpos, senders, chan, header, records,
                   log, entries, inserted, io, result, scan, part, dq>>

\* Ok((header, records))
SelectReturn ==
    /\ pc = "join"
    /\ joined = call.k
    /\ result' = [op |-> "select", status |-> "Ok", header |-> header,
                  rows |-> records]
    /\ pc' = "returned"
    /\ UNCHANGED <<fs, call, groups, wpos, senders, chan, header, records,
                   joined, log, entries, inserted, io, scan, part, dq>>

\* insert, with the filename drawn from `names` and the payload from
\* `payloads`
InsertIn(names, payloads) ==
    /\ pc = "idle"
    /\ \E c \in Collections \cup {""}, f \in names, pl \in payloads :
       \E sample \in DirSamples(fs, Exists(c), SampleSize) :
         LET out == insert(fs, Exists(c), c, f, pl.header, pl.rows, sample)
         IN /\ call' = [op |-> "insert", collection |-> c, filename |-> f,
                        header |-> pl.header, rows |-> pl.rows]
            /\ entries' = out.entries
            /\ fs' = out.fs
            /\ io' = out.io
            /\ result' = [op |-> "insert", status |-> out.status,
                          header |-> <<>>, rows |-> <<>>]
            /\ inserted' = IF out.status = "Ok"
                           THEN <<[filename |-> f, header |-> pl.header,
                                   rows |-> pl.rows]>>
                           ELSE inserted
    /\ pc' = "returned"
    /\ UNCHANGED <<selectVars, scan, part, dq>>

\* delete, with the filename drawn from `names`
DeleteIn(names) ==
    /\ pc = "idle"
    /\ \E c \in Collections \cup {""}, f \in names :
         LET out == delete(fs, Exists(c), c, f)
         IN /\ call' = [op |-> "delete", collection |-> c, filename |-> f]
            /\ fs' = out.fs
            /\ io' = out.io
            /\ result' = [op |-> "delete", status |-> out.status,
                          header |-> <<>>, rows |-> <<>>]
            /\ inserted' = IF out.status = "Ok" THEN <<>> ELSE inserted
    /\ pc' = "returned"
    /\ UNCHANGED <<selectVars, entries, scan, part, dq>>

\* the handler hands the result to its caller: the call and its locals end
Respond ==
    /\ pc = "returned"
    /\ pc' = "idle"
    /\ call' = NoCall
    /\ groups' = <<>>
    /\ wpos' = <<>>
    /\ senders' = {}
    /\ chan' = <<>>
    /\ header' = <<>>
    /\ records' = <<>>
    /\ joined' = 0
    /\ log' = {}
    /\ entries' = <<>>
    /\ result' = NoResult
    /\ io' = 0
    /\ UNCHANGED <<fs, inserted, scan, part, dq>>

Insert == InsertIn(Names \cup {<<>>}, InsertPayloads)

Delete == DeleteIn(Names \cup {<<>>})

Workers == 1..MaxK

Next ==
    \/ SelectFails
    \/ SelectBegin
    \/ \E w \in Workers : WorkerStep(w)
    \/ \E w \in Workers : WorkerExit(w)
    \/ DropSender
    \/ Receive
    \/ DrainEnd
    \/ Join
    \/ SelectReturn
    \/ Insert
    \/ Delete
    \/ Respond

Spec == Init /\ [][Next]_vars

(***************************************************************************)
(* FairSpec: the select calls of Spec with the threads scheduled fairly:   *)
(* the coordinator and every spawned worker keep taking their steps.  The  *)
(* files either scan Ok or fail; no file is written during a select.       *)
(***************************************************************************)
FairFiles ==
    { File(tAB), File(tA), File(tBad), [readable |-> FALSE, lines |-> tA] }

FairInit ==
    /\ MainIdle
    /\ scan = NoScan
    /\ part = NoPart
    /\ dq = NoParse
    /\ \E used \in SUBSET Names : fs \in [used -> FairFiles]

FairNext ==
    \/ SelectFails
    \/ SelectBegin
    \/ \E w \in Workers : WorkerStep(w)
    \/ \E w \in Workers : WorkerExit(w)
    \/ DropSender
    \/ Receive
    \/ DrainEnd
    \/ Join
    \/ SelectReturn
    \/ Respond

\* the thread that called select, from drop(sender) to the return
Coordinator == DropSender \/ Receive \/ DrainEnd \/ Join \/ SelectReturn

\* one spawned thread
WorkerThread(w) == WorkerStep(w) \/ WorkerExit(w)

FairSpec ==
    /\ FairInit
    /\ [][FairNext]_vars
    /\ WF_vars(Coordinator)
    /\ \A w \in Workers : WF_vars(WorkerThread(w))

(***************************************************************************)
(* WriteSpec: insert and delete on a collection of up to MaxWriteFiles     *)
(* files, more than the header check samples.                              *)
(***************************************************************************)
MaxWriteFiles == 4

WriteNames == { FileName(i) : i \in 1..MaxWriteFiles }

\* an incomplete record, then a record of another length: the reader fails
\* before any header is found
tBadEarly == <<<<sE, sA>>, <<sA>>>>

WriteFiles == { File(tAB), File(tA), File(tBadEarly) }

WriteInit ==
    /\ MainIdle
    /\ scan = NoScan
    /\ part = NoPart
    /\ dq = NoParse
    /\ \E used \in SUBSET WriteNames : fs \in [used -> WriteFiles]

WritePayloads ==
    { [header |-> <<sA, sB>>, rows |-> <<<<sB, sA>>>>],
      [header |-> <<sA, sB>>, rows |-> <<<<sB>>>>],
      [header |-> <<sB, sA>>, rows |-> <<>>] }

WriteInsert == InsertIn(WriteNames, WritePayloads)

WriteDelete == DeleteIn(WriteNames)

WriteNext == WriteInsert \/ WriteDelete \/ Respond

WriteSpec == WriteInit /\ [][WriteNext]_vars

(***************************************************************************)
(* EmptySpec: insert and delete calls, one at a time, on a collection that *)
(* starts with no file.                                                    *)
(***************************************************************************)
EmptyInit ==
    /\ MainIdle
    /\ scan = NoScan
    /\ part = NoPart
    /\ dq = NoParse
    /\ fs = NoFiles

\* headers with an empty cell, with and without complete rows under them,
\* and two complete headers
EmptyPayloads ==
    { [header |-> <<sA, sE>>, rows |-> <<<<sB, sA>>, <<sA, sA>>>>],
      [header |-> <<sA, sE>>, rows |-> <<>>],
      [header |-> <<sB, sA>>, rows |-> <<>>],
      [header |-> <<sA, sB>>, rows |-> <<<<sB, sA>>>>] }

EmptyInsert == InsertIn(WriteNames, EmptyPayloads)

EmptyDelete == DeleteIn(WriteNames)

EmptyNext == EmptyInsert \/ EmptyDelete \/ Respond

EmptySpec == EmptyInit /\ [][EmptyNext]_vars

(***************************************************************************)
(* PartSpec: group_collection_files called twice on the same set of files, *)
(* delivered by the directory enumeration in two orders.                   *)
(***************************************************************************)
\* the files f1 .. fn with any sizes, listed in the order of their names;
\* the second enumeration is any permutation of the list
FileLists(n) ==
    { [i \in 1..n |-> [filename |-> FileName(i), size |-> s[i]]] :
        s \in [1..n -> 1..MaxSize] }

Orders(n) == { p \in [1..n -> 1..n] : \A i, j \in 1..n : i # j => p[i] # p[j] }

PartInit ==
    /\ fs = NoFiles
    /\ MainIdle
    /\ scan = NoScan
    /\ dq = NoParse
    /\ \E n \in 0..MaxPartFiles, k \in 1..MaxK :
         \E first \in FileLists(n), p \in Orders(n) :
            part = [k |-> k, first |-> first,
                    second |-> [i \in 1..n |-> first[p[i]]],
                    groups1 |-> <<>>, groups2 |-> <<>>, done |-> {}]

GroupFirst ==
    /\ part.k > 0
    /\ 1 \notin part.done
    /\ part' = [part EXCEPT !.groups1 = group_collection_files(part.first, part.k),
                            !.done = @ \cup {1}]
    /\ UNCHANGED <<mainVars, scan, dq>>

GroupSecond ==
    /\ part.k > 0
    /\ 2 \notin part.done
    /\ part' = [part EXCEPT !.groups2 = group_collection_files(part.second, part.k),
                            !.done = @ \cup {2}]
    /\ UNCHANGED <<mainVars, scan, dq>>

PartNext == GroupFirst \/ GroupSecond

PartSpec == PartInit /\ [][PartNext]_vars

(***************************************************************************)
(* ParseSpec: DataQuery::new on one predicate string, either written from  *)
(* a (field, operator, value) triple or given as it is.                    *)
(***************************************************************************)
\* the text of an operator
OpText(op) == (CHOOSE k \in 1..Len(OpTokens) : OpTokens[k].op = op)

ParseFields ==
    { <<97>>,                          \* a
      <<97, 32, 98>>,                  \* a b
      bHAS \o <<97>>,                  \* HAS a
      <<72, 65, 83>>,                  \* HAS
      bHAS,                            \* HAS and a space
      <<97, 32, 61, 61, 32, 98>>,      \* a == b
      <<60>> }                         \* <

ParseValues ==
    { <<>>,
      <<97>>,                          \* a
      <<97, 32, 98>>,                  \* a b
      <<61, 61, 32, 97>>,              \* == a
      <<97, 32, 60, 32, 98>>,          \* a < b
      <<32>>,                          \* a space
      <<60, 61>> }                     \* <=

ParseOps == { OpTokens[k].op : k \in 1..Len(OpTokens) }

\* strings that are not written from a triple
RawTexts ==
    { <<>>,
      <<97>>,                          \* a
      <<97, 32, 61, 32, 98>>,          \* a = b
      <<32, 61, 61, 32, 97>>,          \* an empty field
      <<97, 32, 61, 61>>,              \* a ==, no space after the operator
      <<97, 10, 98, 32, 61, 61, 32, 99>>,   \* a newline in the field
      <<97, 32, 61, 61, 32, 98, 10>>,  \* a newline in the value
      bHAS \o <<61, 61, 32, 97>> }     \* HAS == a

\* "<field> <operator> <value>"
PredicateText(field, op, value) ==
    field \o bSpace \o OpTokens[OpText(op)].tok \o bSpace \o value

ParseInit ==
    /\ fs = NoFiles
    /\ MainIdle
    /\ scan = NoScan
    /\ part = NoPart
    /\ \/ \E f \in ParseFields, o \in ParseOps, v \in ParseValues :
            dq = [stage |-> "given", from |-> <<Pred(f, o, v)>>,
                  text |-> PredicateText(f, o, v),
                  status |-> "none", query |-> NoQuery]
       \/ \E t \in RawTexts :
            dq = [stage |-> "given", from |-> <<>>, text |-> t,
                  status |-> "none", query |-> NoQuery]

\* DataQuery::new(fields, [text]) returns Ok(DataQuery)
ParseOk ==
    /\ dq.stage = "given"
    /\ LET out == DataQuery_new(<<>>, <<dq.text>>)
       IN /\ out.status = "Ok"
          /\ dq' = [dq EXCEPT !.stage = "parsed", !.status = out.status,
                              !.query = out.query]
    /\ UNCHANGED <<mainVars, scan, part>>

\* DataQuery::new(fields, [text]) returns Err(PredicateError)
ParseFails ==
    /\ dq.stage = "given"
    /\ LET out == DataQuery_new(<<>>, <<dq.text>>)
       IN /\ out.status # "Ok"
          /\ dq' = [dq EXCEPT !.stage = "parsed", !.status = out.status,
                              !.query = out.query]
    /\ UNCHANGED <<mainVars, scan, part>>

ParseNext == ParseOk \/ ParseFails

ParseSpec == ParseInit /\ [][ParseNext]_vars

(***************************************************************************)
(* Properties of group_collection_files, under PartSpec.                   *)
(***************************************************************************)
Range(seq) == { seq[i] : i \in 1..Len(seq) }

IsDescending(d) == \A i \in 1..(Len(d) - 1) : d[i].size >= d[i + 1].size

\* g is k groups, and the file at 0-based position i of some descending-size
\* ordering of the files is the (i div k)-th file of group i mod k
DealtRoundRobin(files, k, g) ==
    LET n == Len(files)
    IN /\ DOMAIN g = 1..k
       /\ \A j \in 1..k :
             Len(g[j]) = Cardinality({ i \in 0..(n - 1) : i % k = j - 1 })
       /\ \E p \in Orders(n) :
             LET d == [i \in 1..n |-> files[p[i]]]
             IN /\ IsDescending(d)
                /\ \A i \in 0..(n - 1) : g[(i % k) + 1][(i \div k) + 1] = d[i + 1]
       /\ \A f \in Range(files) :
             Cardinality({ j \in 1..k : f \in Range(g[j]) }) = 1

SameAssignment(g1, g2) ==
    /\ DOMAIN g1 = DOMAIN g2
    /\ \A j \in DOMAIN g1 : Range(g1[j]) = Range(g2[j])

DistinctSizes(files) ==
    \A i, j \in 1..Len(files) : i # j => files[i].size # files[j].size

\* C8 as claimed: the same set of files and the same K give the same
\* assignment of files to groups whatever the enumeration order, also when
\* several files have equal size.
C8_SameAssignmentAnyOrder ==
    (part.k > 0 /\ part.done = {1, 2})
        => SameAssignment(part.groups1, part.groups2)

\* C8 amended: the same set of files and the same K give the same groups
\* whatever the enumeration order, provided no two files have equal size.
C8_SameAssignmentDistinctSizes ==
    (part.k > 0 /\ part.done = {1, 2} /\ DistinctSizes(part.first))
        => part.groups1 = part.groups2

\* two files of distinct sizes enumerated in two different orders
C8_Witness ==
    /\ part.k = 2
    /\ part.done = {1, 2}
    /\ Len(part.first) = 2
    /\ DistinctSizes(part.first)
    /\ part.first # part.second
    /\ part.groups1 = part.groups2

(***************************************************************************)
(* Properties of the record loop, under ScanSpec.                          *)
(***************************************************************************)
Complete(row) == \A i \in 1..Len(row) : row[i] # <<>>

\* the index of the first complete row among the first n, or 0
FirstComplete(recs, n) ==
    IF \E i \in 1..n : Complete(recs[i])
    THEN CHOOSE i \in 1..n :
            Complete(recs[i]) /\ \A j \in 1..(i - 1) : ~Complete(recs[j])
    ELSE 0

ScanHeaderIsFirstComplete ==
    scan.mode # "none" =>
        LET h == FirstComplete(scan.recs, scan.pos)
        IN /\ scan.header = (IF h = 0 THEN <<>> ELSE scan.recs[h])
           /\ Len(scan.records) <= (IF h = 0 THEN 0 ELSE scan.pos - h)
           /\ (scan.status = "Ok" /\ scan.query.fields = <<>>)
                 => scan.ret = scan.header

ScanHeaderKept ==
    scan.mode # "none" =>
        /\ scan.header # <<>> => scan'.header = scan.header
        /\ scan'.records # scan.records
              => /\ scan.header # <<>>
                 /\ Len(scan'.records) = Len(scan.records) + 1
                 /\ SubSeq(scan'.records, 1, Len(scan.records)) = scan.records

Eligible(q, hdr, row) ==
    /\ Len(row) = Len(hdr)
    /\ \A p \in 1..Len(q.predicates) :
          \A i \in 1..Len(hdr) :
             (hdr[i] = q.predicates[p].field
                /\ \A j \in (i + 1)..Len(hdr) : hdr[j] # hdr[i])
                => satisfied_by(q.predicates[p], row[i])

\* C10 (without projection): a row after the header is kept exactly when
\* its cell count equals the header's and it satisfies every predicate whose
\* field occurs in the header; a row of the wrong length is dropped without
\* producing an error.
C10_RowKeptIffEligible ==
    [][(/\ scan.mode = "read_csv"
        /\ scan.query.fields = <<>>
        /\ scan.status = "running"
        /\ scan.header # <<>>
        /\ scan.pos < Len(scan.recs)
        /\ scan' # scan)
         => LET row == scan.recs[scan.pos + 1]
            IN /\ scan'.status = "running"
               /\ scan'.records = (IF Eligible(scan.query, scan.header, row)
                                   THEN Append(scan.records, row)
                                   ELSE scan.records)]_vars

(***************************************************************************)
(* Properties of select, insert and delete, under Spec, FairSpec and       *)
(* WriteSpec.                                                              *)
(***************************************************************************)
SelectReturned == pc = "returned" /\ call.op = "select"

SelectOk == SelectReturned /\ result.status = "Ok"

\* the files select enumerates, whatever the order of the directory
Listed ==
    { f \in DOMAIN fs :
        FileListed([filename |-> f, size |-> TextSize(fs[f].lines)],
                   call.query.filename_regex_predicates) }

\* the scan result of a file under the query of the call
ScanOf(f) == read_csv(fs[f], call.query)

Scanned == { f \in Listed : ScanOf(f).status = "Ok" }

\* the first complete row of a file, as the reader delivers its rows
DetectedHeader(lines) ==
    LET recs == ReaderRecords(lines)
        h == FirstComplete(recs, Len(recs))
    IN IF h = 0 THEN <<>> ELSE recs[h]

RowsMatch(hdr, rows) == \A i \in 1..Len(rows) : Len(rows[i]) = Len(hdr)

\* all scanned files that have a header have the same one
UniformHeaders ==
    \A f, g \in Scanned :
        (DetectedHeader(fs[f].lines) # <<>> /\ DetectedHeader(fs[g].lines) # <<>>)
            => DetectedHeader(fs[f].lines) = DetectedHeader(fs[g].lines)

\* C1 as claimed: every row select returns has as many cells as the header
\* select returns, whatever the files of the collection.
C1_RowsMatchHeader == SelectOk => RowsMatch(result.header, result.rows)

\* C1 amended: every row of a per-file scan result has as many cells as that
\* result's header, and every row select returns has as many cells as the
\* returned header when all scanned files with a header have the same one.
C1_RowsMatchHeaderUniform ==
    /\ \A i \in 1..Len(chan) : RowsMatch(chan[i].header, chan[i].records)
    /\ (SelectOk /\ UniformHeaders) => RowsMatch(result.header, result.rows)

\* two files with the header a,b scanned under the projection b
C1_Witness ==
    /\ SelectOk
    /\ UniformHeaders
    /\ Cardinality(Scanned) = 2
    /\ call.query.fields = <<sB>>
    /\ result.header = <<sB>>
    /\ Len(result.rows) >= 3

RegexesCompile ==
    \A p \in 1..Len(call.query.filename_regex_predicates) :
        \A i \in 1..Len(call.query.filename_regex_predicates[p].field) :
            call.query.filename_regex_predicates[p].field[i] # 40

\* DataQuery::new accepts the predicate strings of the call
WellFormed == DataQuery_new(<<>>, call.predicates).status = "Ok"

InSelect == call.op = "select" /\ pc \in {"spawned", "drain", "join", "returned"}

\* C2: a file whose scan fails is logged and skipped, the worker goes on
\* with the rest of its group, and select returns Ok with the rows of the
\* other files; select fails only when the query or the enumeration fails.
C2_ScanErrorsSkipped ==
    /\ (SelectReturned /\ result.status # "Ok")
          => (~WellFormed \/ ~RegexesCompile \/ ~Exists(call.collection))
    /\ (SelectReturned /\ WellFormed /\ RegexesCompile /\ Exists(call.collection))
          => /\ result.status = "Ok"
             /\ \A w \in DOMAIN groups : wpos[w] = Len(groups[w])
             /\ log = Listed \ Scanned
             /\ \A f \in Scanned :
                   Range(ScanOf(f).records) \subseteq Range(result.rows)
    /\ (InSelect /\ result.status # "PredicateError"
                 /\ result.status # "FileSystemError")
          => \A w \in DOMAIN groups : \A i \in 1..wpos[w] :
                ScanOf(groups[w][i].filename).status # "Ok"
                    => groups[w][i].filename \in log

\* one worker, whose first file fails and whose second file gives rows
C2_Witness ==
    /\ SelectOk
    /\ call.k = 1
    /\ Len(groups[1]) = 2
    /\ groups[1][1].filename \in log
    /\ ScanOf(groups[1][2].filename).status = "Ok"
    /\ result.rows # <<>>
    /\ result.rows = ScanOf(groups[1][2].filename).records

SeqToBag(seq) ==
    [x \in Range(seq) |-> Cardinality({ i \in 1..Len(seq) : seq[i] = x })]

RECURSIVE RowsOfFiles(_)
RowsOfFiles(files) ==
    IF files = {} THEN EmptyBag
    ELSE LET f == CHOOSE x \in files : TRUE
         IN SeqToBag(ScanOf(f).records) (+) RowsOfFiles(files \ {f})

\* C3: under every interleaving the rows select returns are, as a multiset,
\* the union of the scan results of the enumerated files.
C3_RowMultisetStable == SelectOk => SeqToBag(result.rows) = RowsOfFiles(Scanned)

\* two workers, the data of the second worker's file received first
C3_Witness ==
    /\ SelectOk
    /\ call.k = 2
    /\ Len(groups[1]) = 1
    /\ Len(groups[2]) = 1
    /\ ScanOf(groups[1][1].filename).records # <<>>
    /\ ScanOf(groups[2][1].filename).records # <<>>
    /\ result.rows = ScanOf(groups[2][1].filename).records
                        \o ScanOf(groups[1][1].filename).records

\* C4: every select returns, after the drain loop has ended with every
\* sender released and every worker thread joined.
C4_SelectReturns ==
    /\ (pc \in {"spawned", "drain", "join"}) ~> (pc = "returned")
    /\ [](SelectOk => /\ joined = call.k
                      /\ senders = {}
                      /\ chan = <<>>
                      /\ \A w \in 1..call.k : wpos[w] = Len(groups[w]))

\* a select with two workers that each had a file has returned
C4_Witness ==
    /\ SelectOk
    /\ call.k = 2
    /\ joined = 2
    /\ Len(groups[1]) = 1
    /\ Len(groups[2]) = 1
    /\ senders = {}

\* C5: after an accepted insert, a select with no fields and no predicates
\* on the collection returns every row that was inserted.
C5_InsertedRowsSelected ==
    (SelectOk /\ call.query = NoQuery /\ inserted # <<>>)
        => Range(inserted[1].rows) \subseteq Range(result.rows)

InsertReturned == pc = "returned" /\ call.op = "insert"

\* the call passes the checks made before the collection is sampled
PayloadWellFormed ==
    /\ call.collection # ""
    /\ call.filename # <<>>
    /\ call.header # <<>>
    /\ \A i \in 1..Len(call.rows) : Len(call.rows[i]) = Len(call.header)

\* the sampled entry can be opened and read up to its header
ReadsClean(f) ==
    /\ fs[f].readable
    /\ LET recs == ReaderRecords(fs[f].lines)
           h == FirstComplete(recs, Len(recs))
       IN \A i \in 1..(IF h = 0 THEN Len(recs) ELSE h) :
              Len(recs[i]) = Len(recs[1])

SampledMismatch ==
    \E i \in 1..Len(entries) :
        /\ \A j \in 1..i : ReadsClean(entries[j])
        /\ DetectedHeader(fs[entries[i]].lines) # call.header
        /\ \A j \in 1..(i - 1) :
              DetectedHeader(fs[entries[j]].lines) = call.header

InsertRejectedUnchanged ==
    (pc = "idle" /\ pc' = "returned" /\ call'.op = "insert"
        /\ result'.status # "Ok") => fs' = fs

ParsedOk == dq.stage = "parsed" /\ dq.status = "Ok"

\* the one predicate of the parsed query and whether it is a filename regex
ParsedPredicate ==
    IF dq.query.predicates # <<>> THEN dq.query.predicates[1]
    ELSE dq.query.filename_regex_predicates[1]

ParsedAsRegex == dq.query.filename_regex_predicates # <<>>

\* the text, after its first byte, holds a space, an operator token, a space
HoldsOperator(text) ==
    \E k \in 1..Len(OpTokens) :
        StrContains(text, bSpace \o OpTokens[k].tok \o bSpace)

\* the field is "HAS " followed by at least one more character
HasPrefixed(field) ==
    Len(field) > 4 /\ SubSeq(field, 1, 4) = bHAS

\* C11 as claimed: for every accepted string written from a triple, the
\* parsed triple is the triple it was written from, also when the field or
\* the value holds spaces or operator tokens.
C11_ParseRoundTrips ==
    (ParsedOk /\ dq.from # <<>>)
        => (~ParsedAsRegex /\ ParsedPredicate = dq.from[1])

\* C11 amended: every accepted string is the re-serialization of what was
\* parsed from it (after "HAS " for a filename regex); the parsed triple is
\* the triple the string was written from when the field does not start with
\* "HAS " and " " followed by the value holds no operator between spaces.
C11_ParseRoundTripsUnambiguous ==
    /\ ParsedOk
         => dq.text = (IF ParsedAsRegex THEN bHAS ELSE <<>>)
                        \o PredicateText(ParsedPredicate.field,
                                         ParsedPredicate.op,
                                         ParsedPredicate.value)
    /\ (/\ dq.stage = "parsed"
        /\ dq.from # <<>>
        /\ NoNewline(dq.text)
        /\ ~HasPrefixed(dq.from[1].field)
        /\ ~HoldsOperator(bSpace \o dq.from[1].value))
         => (ParsedOk /\ ~ParsedAsRegex /\ ParsedPredicate = dq.from[1])

\* the field a == b with the operator < and the empty value is parsed back
C11_Witness ==
    /\ ParsedOk
    /\ dq.from # <<>>
    /\ dq.from[1] = Pred(<<97, 32, 61, 61, 32, 98>>, "LT", <<>>)
    /\ ParsedPredicate = dq.from[1]
    /\ ~ParsedAsRegex

\* ---------------------------------------------------------------------
\* C12: errors reported before the filesystem is reached

\* a predicate string of the call does not match the predicate syntax
Malformed ==
    \E i \in 1..Len(call.predicates) : ~re_captures(call.predicates[i]).matched

\* C12 as claimed: select with a malformed predicate string returns
\* PredicateError, and insert with an empty collection, filename or header,
\* a row of another length than the header, or a header that mismatches
\* the collection returns QueryError, each with no I/O before it.
C12_StructuralErrorsBeforeIO ==
    /\ (SelectReturned /\ Malformed)
          => (result.status = "PredicateError" /\ io = 0)
    /\ (InsertReturned /\ ~PayloadWellFormed)
          => (result.status = "QueryError" /\ io = 0)
    /\ (InsertReturned /\ result.status = "QueryError") => io = 0

\* C12 amended: select with a malformed predicate string or a filename
\* regex that does not compile returns PredicateError, and insert with an
\* empty collection, filename or header or a row of another length than
\* the header returns QueryError, each with no I/O before it and so
\* whether or not the directory exists; a header mismatch is returned as
\* QueryError only after the directory was listed and at least one of at
\* most 3 sampled entries was opened, and the same payload sent to a
\* missing directory returns FileSystemError.
C12_StructuralErrorsBeforeIOExceptHeader ==
    /\ (SelectReturned /\ (Malformed \/ ~RegexesCompile))
          => (result.status = "PredicateError" /\ io = 0)
    /\ (InsertReturned /\ ~PayloadWellFormed)
          => (result.status = "QueryError" /\ io = 0)
    /\ (InsertReturned /\ PayloadWellFormed /\ result.status = "QueryError")
          => /\ Exists(call.collection)
             /\ io >= 2
             /\ io <= 1 + SampleSize
    /\ (InsertReturned /\ PayloadWellFormed /\ ~Exists(call.collection))
          => (result.status = "FileSystemError" /\ io = 1)

\* a row of another length than the header, sent to a directory that does
\* not exist, is answered with QueryError before the directory is reached
C12_Witness ==
    /\ InsertReturned
    /\ ~Exists(call.collection)
    /\ call.collection # ""
    /\ call.filename # <<>>
    /\ call.header # <<>>
    /\ \E i \in 1..Len(call.rows) : Len(call.rows[i]) # Len(call.header)
    /\ result.status = "QueryError"
    /\ io = 0

\* ---------------------------------------------------------------------
\* C13: the header of the aggregate

\* the merge loop takes the next scan result off the channel
Receives == pc = "drain" /\ chan # <<>> /\ chan' = Tail(chan)

\* an empty aggregate header takes the header of the received result,
\* empty or not; a non-empty one stays
HeaderFirstNonEmpty ==
    Receives => header' = (IF header = <<>> THEN Head(chan).header ELSE header)

\* while the select runs, nothing else changes a non-empty aggregate header
HeaderStays ==
    (header # <<>> /\ pc \in {"spawned", "drain", "join"}) => header' = header

\* the headers of the files of the one group of a select with one worker,
\* in the order they are sent
GroupHeaders(i) ==
    IF ScanOf(groups[1][i].filename).status = "Ok"
    THEN ScanOf(groups[1][i].filename).header ELSE <<>>

\* C13: select returns the header of the first received scan result with a
\* non-empty header: results with an empty header received before it do
\* not fix it, and no later result changes it.
C13_HeaderIsFirstNonEmptyReceived ==
    /\ [][HeaderFirstNonEmpty]_vars
    /\ [][HeaderStays]_vars
    /\ [](SelectOk => result.header = header)
    /\ []((SelectOk /\ result.header = <<>>)
            => \A f \in Scanned : ScanOf(f).header = <<>>)
    /\ []((SelectOk /\ result.header # <<>>)
            => \E f \in Scanned : ScanOf(f).header = result.header)
    /\ []((SelectOk /\ call.k = 1)
            => \A i \in 1..Len(groups[1]) :
                  (/\ GroupHeaders(i) # <<>>
                   /\ \A j \in 1..(i - 1) : GroupHeaders(j) = <<>>)
                     => result.header = GroupHeaders(i))

\* one worker sent a result without header and then one with a header:
\* select returned the header of the second
C13_Witness ==
    /\ SelectOk
    /\ call.k = 1
    /\ Len(groups[1]) = 2
    /\ ScanOf(groups[1][1].filename).status = "Ok"
    /\ GroupHeaders(1) = <<>>
    /\ GroupHeaders(2) # <<>>
    /\ result.header = GroupHeaders(2)
    /\ result.header # <<>>

\* ---------------------------------------------------------------------
\* C14: the order of the returned rows

\* the rows of the files of `order`, file after file
RECURSIVE Blocks(_)
Blocks(order) ==
    IF order = <<>> THEN <<>>
    ELSE ScanOf(Head(order)).records \o Blocks(Tail(order))

\* the files of the groups whose scan succeeded
Sent ==
    { f \in Scanned :
        \E w \in DOMAIN groups : \E i \in 1..Len(groups[w]) :
            groups[w][i].filename = f }

\* the orders in which the results of the sent files may arrive
Arrivals ==
    { o \in [1..Cardinality(Sent) -> Sent] :
        \A i, j \in DOMAIN o : i # j => o[i] # o[j] }

\* two files of one group arrive in the order of the group
KeepsGroupOrder(o) ==
    \A w \in DOMAIN groups : \A p, q \in 1..Len(groups[w]) :
        \A i, j \in DOMAIN o :
            (o[i] = groups[w][p].filename /\ o[j] = groups[w][q].filename
                /\ p < q) => i < j

C15_OneHeaderPerCollection ==
    \A f, g \in DOMAIN fs :
        /\ fs[f].readable
        /\ DetectedHeader(fs[f].lines) = DetectedHeader(fs[g].lines)

\* more files than insert samples, one of them written under a header with
\* an empty cell, all with the same detected header
C15_Witness ==
    /\ Cardinality(DOMAIN fs) > SampleSize
    /\ \E f \in DOMAIN fs : ~AllNonEmpty(fs[f].lines[1])
    /\ \E f \in DOMAIN fs : AllNonEmpty(fs[f].lines[1])
    /\ \A f, g \in DOMAIN fs :
          DetectedHeader(fs[f].lines) = DetectedHeader(fs[g].lines)
    /\ InsertReturned
    /\ result.status = "Ok"

====
